---- MODULE Spec2Model ----
(***************************************************************************)
(* librbd::image::CreateRequest: the asynchronous image-create state       *)
(* machine of src/librbd/image/CreateRequest.cc.  One request is built     *)
(* from its options, validated in send(), driven through the forward       *)
(* pipeline by the completion callbacks of the object store, and on a      *)
(* forward failure through the cleanup chain.                              *)
(***************************************************************************)
EXTENDS Integers, Sequences, FiniteSets, TLC

\* ------------------------------------------------------------- error codes
ENOENT == -2
EIO == -5
EBUSY == -16
EINVAL == -22
EDOM == -33
ENOSYS == -38
EBADMSG == -74

\* ---------------------------------------------------------------- features
LAYERING == "LAYERING"
STRIPINGV2 == "STRIPINGV2"
EXCLUSIVE_LOCK == "EXCLUSIVE_LOCK"
OBJECT_MAP == "OBJECT_MAP"
FAST_DIFF == "FAST_DIFF"
DEEP_FLATTEN == "DEEP_FLATTEN"
JOURNALING == "JOURNALING"
DATA_POOL == "DATA_POOL"
\* a feature bit outside the vocabulary
UNKNOWN_BIT == "UNKNOWN_BIT"

RBD_FEATURES_ALL ==
  {LAYERING, STRIPINGV2, EXCLUSIVE_LOCK, OBJECT_MAP, FAST_DIFF, DEEP_FLATTEN,
   JOURNALING, DATA_POOL}

\* ------------------------------------------------------------------ bounds
\* stripe_count options range over 0..MaxStripeCount
MaxStripeCount == 2
\* the order option ranges over 11..10+OrderSpan and the same values plus 256
OrderSpan == 2

\* --------------------------------------------------------- integer helpers
RECURSIVE Pow2(_)
Pow2(n) == IF n = 0 THEN 1 ELSE 2 * Pow2(n - 1)

\* static_cast<uint8_t>(large_value)
CastU8(v) == v % 256

\* =========================================================================
\* Validators (anonymous namespace)
\* =========================================================================

\* the process aborts on assert(false)
ABORTED == 134

\* validate_features testing the dependencies before the unknown bits
validate_features_dependencies_first(features, force_non_primary) ==
  IF FAST_DIFF \in features /\ OBJECT_MAP \notin features THEN EINVAL
  ELSE IF OBJECT_MAP \in features /\ EXCLUSIVE_LOCK \notin features THEN EINVAL
  ELSE IF features \ RBD_FEATURES_ALL # {} THEN ENOSYS
  ELSE IF JOURNALING \in features
    THEN (IF EXCLUSIVE_LOCK \notin features THEN EINVAL ELSE 0)
  ELSE IF force_non_primary THEN ABORTED
  ELSE 0

validate_features(features, force_non_primary) ==
  IF features \ RBD_FEATURES_ALL # {} THEN ENOSYS
  ELSE IF FAST_DIFF \in features /\ OBJECT_MAP \notin features THEN EINVAL
  ELSE IF OBJECT_MAP \in features /\ EXCLUSIVE_LOCK \notin features THEN EINVAL
  ELSE IF JOURNALING \in features
    THEN (IF EXCLUSIVE_LOCK \notin features THEN EINVAL ELSE 0)
  ELSE IF force_non_primary THEN ABORTED
  ELSE 0

validate_striping(order, stripe_unit, stripe_count) ==
  IF (stripe_unit # 0 /\ stripe_count = 0) \/ (stripe_unit = 0 /\ stripe_count # 0)
    THEN EINVAL
  ELSE IF stripe_unit # 0 \/ stripe_count # 0
    THEN (IF Pow2(order) % stripe_unit # 0 \/ stripe_unit > Pow2(order)
            THEN EINVAL ELSE 0)
  ELSE 0

\* pool_exists is the outcome of rados.ioctx_create(data_pool); the result is
\* <<r, data_pool_id>>
DataPoolId == 7

validate_data_pool(features, pool_exists, data_pool_id) ==
  IF DATA_POOL \notin features THEN <<0, data_pool_id>>
  ELSE IF ~pool_exists THEN <<ENOENT, data_pool_id>>
  ELSE <<0, DataPoolId>>

\* compatible is the outcome of ObjectMap::is_compatible(layout, size)
validate_layout(compatible) == compatible

validate_order(order) ==
  IF order > 25 \/ order < 12 THEN EDOM ELSE 0

\* get_image_option: an absent option is a failure, else the value narrowed
\* to 8 bits; the result is <<r, value>>
Absent == -1

get_image_option(option) ==
  IF option = Absent THEN <<ENOENT, 0>> ELSE <<0, CastU8(option)>>

\* =========================================================================
\* Inputs of one request
\* =========================================================================

\* name of the pool the image's metadata lives in (ioctx.get_pool_name())
PoolName == "rbd"

\* the configuration consulted for defaults (m_cct->_conf)
ConfChoices ==
  { [rbd_default_features |->
       {LAYERING, EXCLUSIVE_LOCK, OBJECT_MAP, FAST_DIFF, DEEP_FLATTEN},
     rbd_default_stripe_unit |-> 0,
     rbd_default_stripe_count |-> 0,
     rbd_default_order |-> 22,
     rbd_default_data_pool |-> "",
     rbd_validate_pool |-> vp] : vp \in BOOLEAN }

\* one request's options and constructor arguments, with everything at its
\* default
DefaultOptions ==
  [ features_given |-> FALSE, features |-> {},
    features_set |-> {}, features_clear |-> {},
    stripe_unit |-> 0, stripe_count |-> 0, order |-> Absent,
    data_pool |-> [given |-> FALSE, name |-> ""],
    non_primary_global_image_id |-> "" ]

CallerFeatureChoices ==
  { {LAYERING},
    {LAYERING, EXCLUSIVE_LOCK, OBJECT_MAP},
    {LAYERING, EXCLUSIVE_LOCK, JOURNALING, STRIPINGV2, DATA_POOL},
    {LAYERING, EXCLUSIVE_LOCK, OBJECT_MAP, FAST_DIFF, JOURNALING},
    {LAYERING, OBJECT_MAP},
    {LAYERING, EXCLUSIVE_LOCK, FAST_DIFF},
    {LAYERING, JOURNALING},
    {LAYERING, UNKNOWN_BIT, FAST_DIFF} }

FeaturesSetChoices ==
  { {}, {OBJECT_MAP}, {EXCLUSIVE_LOCK, JOURNALING}, {DATA_POOL} }

FeaturesClearChoices == { {}, {OBJECT_MAP}, {JOURNALING, DATA_POOL} }

\* the order option is 64 bits wide, m_order is 8 bits wide
OrderChoices ==
  {Absent, 0, 25, 26} \cup (11 .. (10 + OrderSpan))
      \cup {256 + v : v \in 11 .. (10 + OrderSpan)}

StripeUnitChoices == {0, 3, 2048, 4096}

StripeCountChoices == 0 .. MaxStripeCount

DataPoolChoices ==
  { [given |-> FALSE, name |-> ""], [given |-> TRUE, name |-> PoolName],
    [given |-> TRUE, name |-> "ssd"] }

FeaturesOptionChoices ==
  { [given |-> FALSE, val |-> {}] }
    \cup { [given |-> TRUE, val |-> f] : f \in CallerFeatureChoices }

\* what the request's environment answers: whether the store may fail an
\* operation, whether the named data pool exists (rados.ioctx_create), and
\* whether the layout fits the object map (ObjectMap::is_compatible)
Env(faults, pool_exists, compatible) ==
  [ store_faults |-> faults, data_pool_exists |-> pool_exists,
    layout_compatible |-> compatible ]

\* the mirror registration of the image id in RBD_MIRRORING
NoMirrorImage == [exists |-> FALSE, state |-> "", global_image_id |-> ""]

MirrorImage(state, gid) ==
  [exists |-> TRUE, state |-> state, global_image_id |-> gid]

MirrorImageChoices ==
  { NoMirrorImage, MirrorImage("ENABLED", "G0"), MirrorImage("DISABLED", "G0"),
    MirrorImage("DISABLING", "G0") }

Input(o, c, e, m) == [o |-> o, c |-> c, env |-> e, mirror |-> m]

\* requests that differ in their feature and data pool options, on a store
\* that does not fail
FeatureInputs ==
  { Input([DefaultOptions EXCEPT !.features_given = f.given, !.features = f.val,
                                 !.features_set = fs, !.features_clear = fc,
                                 !.stripe_count = sc,
                                 !.stripe_unit = IF sc = 0 THEN 0 ELSE 2048,
                                 !.data_pool = dp,
                                 !.non_primary_global_image_id = np],
          c, Env(FALSE, pe, TRUE), NoMirrorImage) :
      f \in FeaturesOptionChoices, fs \in FeaturesSetChoices,
      fc \in FeaturesClearChoices, sc \in {0, MaxStripeCount},
      dp \in DataPoolChoices, np \in {"", "G7"},
      c \in {k \in ConfChoices : k.rbd_validate_pool},
      pe \in BOOLEAN }

\* requests that differ in their geometry options, on a store that does not
\* fail
GeometryInputs ==
  { Input([DefaultOptions EXCEPT !.features_given = TRUE, !.features = f,
                                 !.order = ord, !.stripe_unit = su,
                                 !.stripe_count = sc],
          c, Env(FALSE, TRUE, lc), NoMirrorImage) :
      f \in { {LAYERING}, {LAYERING, STRIPINGV2}, {UNKNOWN_BIT} },
      ord \in OrderChoices, su \in StripeUnitChoices,
      sc \in StripeCountChoices,
      c \in {k \in ConfChoices : ~k.rbd_validate_pool},
      lc \in BOOLEAN }

\* requests on a store that may fail any operation
FaultInputs ==
  { Input([DefaultOptions EXCEPT !.features_given = TRUE, !.features = f,
                                 !.stripe_count = sc,
                                 !.stripe_unit = IF sc = 0 THEN 0 ELSE 2048,
                                 !.non_primary_global_image_id = np],
          c, Env(TRUE, TRUE, TRUE), m) :
      f \in { {LAYERING},
              {LAYERING, EXCLUSIVE_LOCK, OBJECT_MAP},
              {LAYERING, EXCLUSIVE_LOCK, JOURNALING},
              {LAYERING, EXCLUSIVE_LOCK, OBJECT_MAP, JOURNALING} },
      sc \in {0, MaxStripeCount},
      np \in {"", "G7", "G0"},
      c \in ConfChoices,
      m \in MirrorImageChoices }

InputChoices == FeatureInputs \cup GeometryInputs \cup FaultInputs

\* =========================================================================
\* Options resolver (the constructor)
\* =========================================================================

\* RBD_IMAGE_OPTION_FEATURES, else the configured default
CallerFeatures(o, c) ==
  IF o.features_given THEN o.features ELSE c.rbd_default_features

features_conflict(o) == o.features_clear \cap o.features_set

\* ApplySetClear with the conflicting bits left in features_clear
ApplySetClear_clear_wins(o, c) ==
  (CallerFeatures(o, c) \cup o.features_set) \ o.features_clear

\* m_features |= features_set; m_features &= ~features_clear, both sides
\* without the conflicting bits
ApplySetClear(o, c) ==
  (CallerFeatures(o, c) \cup (o.features_set \ features_conflict(o)))
    \ (o.features_clear \ features_conflict(o))

ResolveStripeUnit(o, c) ==
  IF o.stripe_unit = 0 THEN c.rbd_default_stripe_unit ELSE o.stripe_unit

ResolveStripeCount(o, c) ==
  IF o.stripe_count = 0 THEN c.rbd_default_stripe_count ELSE o.stripe_count

ResolveOrder(o, c) ==
  LET g == get_image_option(o.order)
  IN  IF g[1] # 0 \/ g[2] = 0 THEN c.rbd_default_order ELSE g[2]

\* the data pool named by the option, else by the configuration
NamedDataPool(o, c) ==
  IF o.data_pool.given THEN o.data_pool.name ELSE c.rbd_default_data_pool

\* the pool name kept in m_data_pool
ResolveDataPool(o, c) ==
  IF NamedDataPool(o, c) # "" /\ NamedDataPool(o, c) # PoolName
    THEN NamedDataPool(o, c) ELSE ""

ResolveLayout(o, c) ==
  LET su == ResolveStripeUnit(o, c)
      sc == ResolveStripeCount(o, c)
      os == Pow2(ResolveOrder(o, c))
  IN  IF su = 0 \/ sc = 0
        THEN [object_size |-> os, stripe_unit |-> os, stripe_count |-> 1]
        ELSE [object_size |-> os, stripe_unit |-> su, stripe_count |-> sc]

ResolveDataPoolBit(o, c, features) ==
  IF NamedDataPool(o, c) # "" /\ NamedDataPool(o, c) # PoolName
    THEN features \cup {DATA_POOL} ELSE features \ {DATA_POOL}

\* ResolveStripingBit without the else branch that clears the bit
ResolveStripingBit_never_clears(o, c, features) ==
  LET su == ResolveStripeUnit(o, c)
      sc == ResolveStripeCount(o, c)
  IN  IF (su # 0 /\ su # Pow2(ResolveOrder(o, c))) \/ (sc # 0 /\ sc # 1)
        THEN features \cup {STRIPINGV2} ELSE features

\* ResolveStripingBit deciding on the stripe unit alone
ResolveStripingBit_ignores_count(o, c, features) ==
  LET su == ResolveStripeUnit(o, c)
  IN  IF su # 0 /\ su # Pow2(ResolveOrder(o, c))
        THEN features \cup {STRIPINGV2} ELSE features \ {STRIPINGV2}

ResolveStripingBit(o, c, features) ==
  LET su == ResolveStripeUnit(o, c)
      sc == ResolveStripeCount(o, c)
  IN  IF (su # 0 /\ su # Pow2(ResolveOrder(o, c))) \/ (sc # 0 /\ sc # 1)
        THEN features \cup {STRIPINGV2} ELSE features \ {STRIPINGV2}

ResolveFeatures(o, c) ==
  ResolveStripingBit(o, c, ResolveDataPoolBit(o, c, ApplySetClear(o, c)))

\* fields the constructor leaves for the pipeline to fill
NoDataPoolId == -1

\* m_r_saved before any handler has assigned it: the constructor does not
\* initialise it, so its value is indeterminate until the first assignment
UnsetSaved == [set |-> FALSE, val |-> 0]

Saved(r) == [set |-> TRUE, val |-> r]

\* the values a read of the unassigned m_r_saved can produce
IndeterminateValues == {0, 1}

\* =========================================================================
\* State
\* =========================================================================

VARIABLES
  \* inputs of the request and of its environment
  opts, conf, env,
  \* fields set by the constructor
  m_features, m_order, m_stripe_unit, m_stripe_count, m_layout, m_data_pool,
  m_force_non_primary,
  \* fields set by the pipeline
  m_data_pool_id, m_r_saved, m_mirror_mode, m_mirror_image_internal,
  \* the pool: id object, directory entry (image_name -> image_id), header,
  \* object map, journal, mirror registration, self-managed snapshot mode
  id_obj, dir_entry, header, object_map, journal, mirror_image, snap_mode,
  \* the pool before the request
  pool_before,
  \* the pool's mirror mode as F6 decoded it ("unread" before)
  mode_read,
  \* control: send() has run, the process aborted, operations awaiting their
  \* callback, every operation issued (in order), every callback's result
  \* (in order), the invocations of m_on_finish and the last result given to
  \* it, the request has deleted itself
  sent, aborted, inflight, issued, replies, on_finish_calls, on_finish_r,
  deleted

inputVars == <<opts, conf, env, pool_before>>

ctorVars ==
  <<m_features, m_order, m_stripe_unit, m_stripe_count, m_layout, m_data_pool,
    m_force_non_primary>>

poolVars ==
  <<id_obj, dir_entry, header, object_map, journal, mirror_image, snap_mode>>

ctlVars ==
  <<sent, aborted, inflight, issued, replies, on_finish_calls, on_finish_r,
    deleted>>

vars ==
  <<opts, conf, env, m_features, m_order, m_stripe_unit, m_stripe_count,
    m_layout, m_data_pool, m_force_non_primary, m_data_pool_id, m_r_saved,
    m_mirror_mode, m_mirror_image_internal, id_obj, dir_entry, header,
    object_map, journal, mirror_image, snap_mode, pool_before, mode_read, sent,
    aborted, inflight, issued, replies, on_finish_calls, on_finish_r, deleted>>

NoHeader ==
  [exists |-> FALSE, order |-> 0, features |-> {}, data_pool_id |-> NoDataPoolId,
   stripe_unit |-> 0, stripe_count |-> 0]

NoJournal == [exists |-> FALSE, mirror_uuid |-> ""]

Pool ==
  [id_obj |-> id_obj, dir_entry |-> dir_entry, header |-> header,
   object_map |-> object_map, journal |-> journal,
   mirror_image |-> mirror_image]

\* the request as the constructor leaves it, in a pool that holds none of the
\* image's objects (the mirror registry may hold a registration of the id)
InitWith(in) ==
  /\ opts = in.o
  /\ conf = in.c
  /\ env = in.env
  /\ m_features = ResolveFeatures(in.o, in.c)
  /\ m_order = ResolveOrder(in.o, in.c)
  /\ m_stripe_unit = ResolveStripeUnit(in.o, in.c)
  /\ m_stripe_count = ResolveStripeCount(in.o, in.c)
  /\ m_layout = ResolveLayout(in.o, in.c)
  /\ m_data_pool = ResolveDataPool(in.o, in.c)
  /\ m_force_non_primary = (in.o.non_primary_global_image_id # "")
  /\ m_data_pool_id = NoDataPoolId
  /\ m_r_saved = UnsetSaved
  /\ m_mirror_mode = "DISABLED"
  /\ m_mirror_image_internal = [state |-> "DISABLING", global_image_id |-> ""]
  /\ id_obj = FALSE
  /\ dir_entry = FALSE
  /\ header = NoHeader
  /\ object_map = FALSE
  /\ journal = NoJournal
  /\ mirror_image = in.mirror
  /\ snap_mode = "none"
  /\ pool_before =
       [id_obj |-> FALSE, dir_entry |-> FALSE, header |-> NoHeader,
        object_map |-> FALSE, journal |-> NoJournal, mirror_image |-> in.mirror]
  /\ mode_read = "unread"
  /\ sent = FALSE
  /\ aborted = FALSE
  /\ inflight = {}
  /\ issued = <<>>
  /\ replies = <<>>
  /\ on_finish_calls = 0
  /\ on_finish_r = 0
  /\ deleted = FALSE

Init == \E in \in InputChoices : InitWith(in)

\* =========================================================================
\* What a function of the request hands back to its caller: an operation
\* issued to the store (its callback resumes the pipeline), the completion of
\* the request, or the abort of the process
\* =========================================================================

Issue(op) == [kind |-> "issue", op |-> op, r |-> 0]

Abort == [kind |-> "abort", op |-> "", r |-> 0]

\* a handler returning nullptr without issuing anything
ReturnNull == [kind |-> "none", op |-> "", r |-> 0]

\* CreateRequest::complete: m_on_finish->complete(r); delete this
complete(r) == [kind |-> "finish", op |-> "", r |-> r]

\* a handler returning m_on_finish with *result = r: the callback adapter
\* completes the returned context with r and deletes the request
ReturnOnFinish(r) == [kind |-> "finish", op |-> "", r |-> r]

\* ---------------------------------------------------------------- rollback
remove_id_object == Issue("remove_id_object")

remove_from_dir == Issue("remove_from_dir")

remove_header_object == Issue("remove_header_object")

remove_object_map ==
  IF OBJECT_MAP \notin m_features THEN remove_header_object
  ELSE Issue("remove_object_map")

journal_remove ==
  IF JOURNALING \notin m_features THEN remove_object_map
  ELSE Issue("journal_remove")

\* ----------------------------------------------------------------- forward
send_watcher_notification == Issue("send_watcher_notification")

mirror_image_enable == Issue("mirror_image_enable")

fetch_mirror_image ==
  IF m_mirror_mode # "POOL" /\ ~m_force_non_primary THEN complete(0)
  ELSE Issue("fetch_mirror_image")

journal_create == Issue("journal_create")

\* fetch_mirror_mode() without the JOURNALING test
fetch_mirror_mode_always_reads == Issue("fetch_mirror_mode")

\* fetch_mirror_mode() without the return after complete(0): the request
\* completes and the read is issued all the same
fetch_mirror_mode_falls_through ==
  IF JOURNALING \notin m_features
    THEN [kind |-> "finish", op |-> "fetch_mirror_mode", r |-> 0]
    ELSE Issue("fetch_mirror_mode")

fetch_mirror_mode ==
  IF JOURNALING \notin m_features THEN complete(0)
  ELSE Issue("fetch_mirror_mode")

object_map_resize ==
  IF OBJECT_MAP \notin m_features THEN fetch_mirror_mode
  ELSE Issue("object_map_resize")

\* set_stripe_unit_count() skipping every single-object stripe
set_stripe_unit_count_skips_single ==
  IF m_stripe_unit = 0 \/ m_stripe_count = 1
    THEN object_map_resize
    ELSE Issue("set_stripe_unit_count")

set_stripe_unit_count ==
  IF (m_stripe_unit = 0 /\ m_stripe_count = 0)
       \/ (m_stripe_count = 1 /\ m_stripe_unit = Pow2(m_order))
    THEN object_map_resize
    ELSE Issue("set_stripe_unit_count")

create_image == Issue("create_image")

add_image_to_directory == Issue("add_image_to_directory")

create_id_object == Issue("create_id_object")

validate_pool ==
  IF ~conf.rbd_validate_pool THEN create_id_object
  ELSE Issue("validate_pool")

\* send() with validate_striping called before validate_order
send_outcome_striping_first ==
  LET rf == validate_features(m_features, m_force_non_primary)
      dp == validate_data_pool(m_features, env.data_pool_exists, m_data_pool_id)
  IN  IF rf = ABORTED THEN [next |-> Abort, data_pool_id |-> m_data_pool_id]
      ELSE IF rf < 0 THEN [next |-> complete(rf), data_pool_id |-> m_data_pool_id]
      ELSE IF validate_striping(m_order, m_stripe_unit, m_stripe_count) < 0
        THEN [next |-> complete(validate_striping(m_order, m_stripe_unit,
                                                  m_stripe_count)),
              data_pool_id |-> m_data_pool_id]
      ELSE IF validate_order(m_order) < 0
        THEN [next |-> complete(validate_order(m_order)),
              data_pool_id |-> m_data_pool_id]
      ELSE IF dp[1] < 0 THEN [next |-> complete(dp[1]), data_pool_id |-> dp[2]]
      ELSE IF ~validate_layout(env.layout_compatible)
        THEN [next |-> complete(EINVAL), data_pool_id |-> dp[2]]
      ELSE [next |-> validate_pool, data_pool_id |-> dp[2]]

\* send(): the validators in order, then validate_pool(); the outcome and the
\* data pool id validate_data_pool leaves in m_data_pool_id
send_outcome ==
  LET rf == validate_features(m_features, m_force_non_primary)
      dp == validate_data_pool(m_features, env.data_pool_exists, m_data_pool_id)
  IN  IF rf = ABORTED THEN [next |-> Abort, data_pool_id |-> m_data_pool_id]
      ELSE IF rf < 0 THEN [next |-> complete(rf), data_pool_id |-> m_data_pool_id]
      ELSE IF validate_order(m_order) < 0
        THEN [next |-> complete(validate_order(m_order)),
              data_pool_id |-> m_data_pool_id]
      ELSE IF validate_striping(m_order, m_stripe_unit, m_stripe_count) < 0
        THEN [next |-> complete(validate_striping(m_order, m_stripe_unit,
                                                  m_stripe_count)),
              data_pool_id |-> m_data_pool_id]
      ELSE IF dp[1] < 0 THEN [next |-> complete(dp[1]), data_pool_id |-> dp[2]]
      ELSE IF ~validate_layout(env.layout_compatible)
        THEN [next |-> complete(EINVAL), data_pool_id |-> dp[2]]
      ELSE [next |-> validate_pool, data_pool_id |-> dp[2]]

\* =========================================================================
\* The completion handlers: what each does with the result it is given
\* =========================================================================

Out(saved, next) == [saved |-> saved, next |-> next]

\* r: the stat of RBD_DIRECTORY; rc, rr: selfmanaged_snap_create and
\* selfmanaged_snap_remove, called when the directory is missing
handle_validate_pool(r, rc, rr) ==
  IF r = 0 THEN create_id_object
  ELSE IF r < 0 /\ r # ENOENT THEN ReturnOnFinish(r)
  ELSE IF rc = EINVAL THEN ReturnOnFinish(rc)
  ELSE IF rc < 0 THEN ReturnOnFinish(rc)
  ELSE create_id_object

handle_create_id_object(r) ==
  IF r < 0 THEN ReturnOnFinish(r) ELSE add_image_to_directory

handle_add_image_to_directory(r) ==
  IF r < 0 THEN Out(Saved(r), remove_id_object)
  ELSE Out(m_r_saved, create_image)

\* handle_create_image entering the cleanup one step too late
handle_create_image_skips_dir(r) ==
  IF r < 0 THEN Out(Saved(r), remove_id_object)
  ELSE Out(m_r_saved, set_stripe_unit_count)

\* handle_create_image calling object_map_resize() instead of
\* set_stripe_unit_count()
handle_create_image_skips_striping(r) ==
  IF r < 0 THEN Out(Saved(r), remove_from_dir)
  ELSE Out(m_r_saved, object_map_resize)

handle_create_image(r) ==
  IF r < 0 THEN Out(Saved(r), remove_from_dir)
  ELSE Out(m_r_saved, set_stripe_unit_count)

handle_set_stripe_unit_count(r) ==
  IF r < 0 THEN Out(Saved(r), remove_header_object)
  ELSE Out(m_r_saved, object_map_resize)

\* handle_object_map_resize entering the cleanup at remove_object_map
handle_object_map_resize_removes_map(r) ==
  IF r < 0 THEN Out(Saved(r), remove_object_map)
  ELSE Out(m_r_saved, fetch_mirror_mode)

\* handle_object_map_resize entering the cleanup at remove_from_dir
handle_object_map_resize_skips_header(r) ==
  IF r < 0 THEN Out(Saved(r), remove_from_dir)
  ELSE Out(m_r_saved, fetch_mirror_mode)

handle_object_map_resize(r) ==
  IF r < 0 THEN Out(Saved(r), remove_header_object)
  ELSE Out(m_r_saved, fetch_mirror_mode)

MirrorModes == {"DISABLED", "IMAGE", "POOL"}

\* r: the read of the mirror mode; d: mirror_mode_get_finish; mode: the value
\* it decodes
handle_fetch_mirror_mode(r, d, mode) ==
  IF r < 0 /\ r # ENOENT
    THEN [saved |-> Saved(r), next |-> remove_object_map, mode |-> m_mirror_mode]
  ELSE IF r = 0 /\ d < 0
    THEN [saved |-> Saved(d), next |-> remove_object_map, mode |-> m_mirror_mode]
  ELSE LET mirror_mode_internal == IF r = 0 THEN mode ELSE "DISABLED"
       IN  IF mirror_mode_internal \in MirrorModes
             THEN [saved |-> m_r_saved, next |-> journal_create,
                   mode |-> mirror_mode_internal]
             ELSE [saved |-> m_r_saved, next |-> remove_object_map,
                   mode |-> m_mirror_mode]

handle_journal_create(r) ==
  IF r < 0 THEN Out(Saved(r), remove_object_map)
  ELSE Out(m_r_saved, fetch_mirror_image)

\* mirror_image_enable(): the registration written by F9
EnabledMirrorImage ==
  [state |-> "ENABLED",
   global_image_id |->
     IF opts.non_primary_global_image_id = "" THEN "uuid"
     ELSE opts.non_primary_global_image_id]

\* handle_fetch_mirror_image without the test for an Enabled registration
handle_fetch_mirror_image_reenables(r, d, stored) ==
  IF r < 0 /\ r # ENOENT
    THEN [saved |-> Saved(r), next |-> journal_remove,
          internal |-> m_mirror_image_internal]
  ELSE IF r = 0 /\ d < 0
    THEN [saved |-> Saved(d), next |-> journal_remove,
          internal |-> m_mirror_image_internal]
  ELSE [saved |-> m_r_saved, next |-> mirror_image_enable,
        internal |-> EnabledMirrorImage]

\* r: the read of the registration; d: mirror_image_get_finish; stored: the
\* registration it decodes
handle_fetch_mirror_image(r, d, stored) ==
  IF r < 0 /\ r # ENOENT
    THEN [saved |-> Saved(r), next |-> journal_remove,
          internal |-> m_mirror_image_internal]
  ELSE IF r = 0 /\ d < 0
    THEN [saved |-> Saved(d), next |-> journal_remove,
          internal |-> m_mirror_image_internal]
  ELSE IF r = 0 /\ stored.state = "ENABLED"
    THEN [saved |-> m_r_saved, next |-> ReturnOnFinish(d), internal |-> stored]
  ELSE [saved |-> m_r_saved, next |-> mirror_image_enable,
        internal |-> EnabledMirrorImage]

handle_mirror_image_enable(r) ==
  IF r < 0 THEN Out(Saved(r), journal_remove)
  ELSE Out(m_r_saved, send_watcher_notification)

\* handle_watcher_notify passing the notification's result on
handle_watcher_notify_reports(r) == complete(r)

handle_watcher_notify(r) == complete(0)

\* handle_journal_remove returning without calling remove_object_map()
handle_journal_remove_stalls(r) == ReturnNull

handle_journal_remove(r) == remove_object_map

handle_remove_object_map(r) == remove_header_object

\* handle_remove_header_object giving up on a failed removal
handle_remove_header_object_stops(r) ==
  IF r < 0 THEN ReturnOnFinish(r) ELSE remove_from_dir

handle_remove_header_object(r) == remove_from_dir

handle_remove_from_dir(r) == remove_id_object

\* handle_remove_id_object returning nullptr
handle_remove_id_object_null(r, saved) == ReturnNull

\* handle_remove_id_object reporting its own failure
handle_remove_id_object_own_error(r, saved) ==
  ReturnOnFinish(IF r < 0 THEN r ELSE saved)

\* saved: the value read from m_r_saved
handle_remove_id_object(r, saved) == ReturnOnFinish(saved)

\* =========================================================================
\* The store's answers
\* =========================================================================

Faults(errors) == IF env.store_faults THEN errors ELSE {}

\* an object write, a class method call, a journal sub-request
WriteReplies == {0} \cup Faults({EIO})

\* a removal of the cleanup chain
RemoveReplies == {0} \cup Faults({EBUSY})

\* =========================================================================
\* Actions
\* =========================================================================

\* the callback of `op` ran with result r and handed back `target`: the
\* operation it issued, if any, and the completion it made, if any
Control(op, r, target) ==
  /\ replies' = Append(replies, <<op, r>>)
  /\ inflight' = (inflight \ {op})
                   \cup (IF target.op # "" THEN {target.op} ELSE {})
  /\ issued' = IF target.op # "" THEN Append(issued, target.op)
               ELSE issued
  /\ on_finish_calls' = IF target.kind = "finish" THEN on_finish_calls + 1
                        ELSE on_finish_calls
  /\ on_finish_r' = IF target.kind = "finish" THEN target.r ELSE on_finish_r
  /\ deleted' = (deleted \/ target.kind = "finish")
  /\ aborted' = (aborted \/ target.kind = "abort")
  /\ UNCHANGED sent

Pending(op) == op \in inflight /\ ~aborted

send ==
  /\ ~sent /\ ~aborted
  /\ sent' = TRUE
  /\ m_data_pool_id' = send_outcome.data_pool_id
  /\ inflight' = inflight \cup (IF send_outcome.next.op # ""
                                  THEN {send_outcome.next.op} ELSE {})
  /\ issued' = IF send_outcome.next.op # ""
                 THEN Append(issued, send_outcome.next.op) ELSE issued
  /\ on_finish_calls' = IF send_outcome.next.kind = "finish"
                          THEN on_finish_calls + 1 ELSE on_finish_calls
  /\ on_finish_r' = IF send_outcome.next.kind = "finish"
                      THEN send_outcome.next.r ELSE on_finish_r
  /\ deleted' = (deleted \/ send_outcome.next.kind = "finish")
  /\ aborted' = (aborted \/ send_outcome.next.kind = "abort")
  /\ UNCHANGED <<inputVars, mode_read, ctorVars, poolVars, replies, m_r_saved,
                 m_mirror_mode, m_mirror_image_internal>>

ack_validate_pool ==
  /\ Pending("validate_pool")
  /\ \E r \in {0, ENOENT} \cup Faults({EIO}) :
     \E rc \in IF r = ENOENT THEN {0} \cup Faults({EINVAL, EIO}) ELSE {0} :
     \E rr \in IF r = ENOENT /\ rc = 0 THEN {0} \cup Faults({EIO}) ELSE {0} :
       /\ snap_mode' = IF r = ENOENT /\ rc = 0
                         THEN (IF rr = 0 THEN "selfmanaged" ELSE "leaked")
                         ELSE snap_mode
       /\ Control("validate_pool", r, handle_validate_pool(r, rc, rr))
  /\ UNCHANGED <<inputVars, mode_read, ctorVars, m_data_pool_id, m_r_saved, m_mirror_mode,
                 m_mirror_image_internal, id_obj, dir_entry, header, object_map,
                 journal, mirror_image>>

ack_create_id_object ==
  /\ Pending("create_id_object")
  /\ \E r \in WriteReplies :
       /\ id_obj' = IF r = 0 THEN TRUE ELSE id_obj
       /\ Control("create_id_object", r, handle_create_id_object(r))
  /\ UNCHANGED <<inputVars, mode_read, ctorVars, m_data_pool_id, m_r_saved, m_mirror_mode,
                 m_mirror_image_internal, dir_entry, header, object_map,
                 journal, mirror_image, snap_mode>>

ack_add_image_to_directory ==
  /\ Pending("add_image_to_directory")
  /\ \E r \in WriteReplies :
       /\ dir_entry' = IF r = 0 THEN TRUE ELSE dir_entry
       /\ m_r_saved' = handle_add_image_to_directory(r).saved
       /\ Control("add_image_to_directory", r,
                  handle_add_image_to_directory(r).next)
  /\ UNCHANGED <<inputVars, mode_read, ctorVars, m_data_pool_id, m_mirror_mode,
                 m_mirror_image_internal, id_obj, header, object_map,
                 journal, mirror_image, snap_mode>>

\* the header cls_client::create_image writes
NewHeader ==
  [exists |-> TRUE, order |-> m_order, features |-> m_features,
   data_pool_id |-> m_data_pool_id, stripe_unit |-> 0, stripe_count |-> 0]

ack_create_image ==
  /\ Pending("create_image")
  /\ \E r \in WriteReplies :
       /\ header' = IF r = 0 THEN NewHeader ELSE header
       /\ m_r_saved' = handle_create_image(r).saved
       /\ Control("create_image", r, handle_create_image(r).next)
  /\ UNCHANGED <<inputVars, mode_read, ctorVars, m_data_pool_id, m_mirror_mode,
                 m_mirror_image_internal, id_obj, dir_entry, object_map,
                 journal, mirror_image, snap_mode>>

ack_set_stripe_unit_count ==
  /\ Pending("set_stripe_unit_count")
  /\ \E r \in WriteReplies :
       /\ header' = IF r = 0
                      THEN [header EXCEPT !.stripe_unit = m_stripe_unit,
                                          !.stripe_count = m_stripe_count]
                      ELSE header
       /\ m_r_saved' = handle_set_stripe_unit_count(r).saved
       /\ Control("set_stripe_unit_count", r,
                  handle_set_stripe_unit_count(r).next)
  /\ UNCHANGED <<inputVars, mode_read, ctorVars, m_data_pool_id, m_mirror_mode,
                 m_mirror_image_internal, id_obj, dir_entry, object_map,
                 journal, mirror_image, snap_mode>>

ack_object_map_resize ==
  /\ Pending("object_map_resize")
  /\ \E r \in WriteReplies :
       /\ object_map' = IF r = 0 THEN TRUE ELSE object_map
       /\ m_r_saved' = handle_object_map_resize(r).saved
       /\ Control("object_map_resize", r, handle_object_map_resize(r).next)
  /\ UNCHANGED <<inputVars, mode_read, ctorVars, m_data_pool_id, m_mirror_mode,
                 m_mirror_image_internal, id_obj, dir_entry, header,
                 journal, mirror_image, snap_mode>>

ack_fetch_mirror_mode ==
  /\ Pending("fetch_mirror_mode")
  /\ \E r \in {0, ENOENT} \cup Faults({EIO}) :
     \E d \in IF r = 0 THEN {0} \cup Faults({EBADMSG}) ELSE {0} :
     \E mode \in IF r = 0 /\ d = 0 THEN MirrorModes \cup Faults({"UNKNOWN"})
                 ELSE {"DISABLED"} :
       /\ m_r_saved' = handle_fetch_mirror_mode(r, d, mode).saved
       /\ m_mirror_mode' = handle_fetch_mirror_mode(r, d, mode).mode
       /\ mode_read' = IF r = 0 /\ d = 0 THEN mode ELSE mode_read
       /\ Control("fetch_mirror_mode", r,
                  handle_fetch_mirror_mode(r, d, mode).next)
  /\ UNCHANGED <<inputVars, ctorVars, m_data_pool_id, m_mirror_image_internal,
                 poolVars>>

\* the journal librbd::journal::CreateRequest creates, with its tag data
NewJournal ==
  [exists |-> TRUE,
   mirror_uuid |-> IF m_force_non_primary THEN "primary_mirror_uuid"
                   ELSE "LOCAL_MIRROR_UUID"]

ack_journal_create ==
  /\ Pending("journal_create")
  /\ \E r \in WriteReplies :
       /\ journal' = IF r = 0 THEN NewJournal ELSE journal
       /\ m_r_saved' = handle_journal_create(r).saved
       /\ Control("journal_create", r, handle_journal_create(r).next)
  /\ UNCHANGED <<inputVars, mode_read, ctorVars, m_data_pool_id, m_mirror_mode,
                 m_mirror_image_internal, id_obj, dir_entry, header,
                 object_map, mirror_image, snap_mode>>

ack_fetch_mirror_image ==
  /\ Pending("fetch_mirror_image")
  /\ \E r \in (IF mirror_image.exists THEN {0} ELSE {ENOENT})
               \cup Faults({EIO}) :
     \E d \in IF r = 0 THEN {0} \cup Faults({EBADMSG}) ELSE {0} :
       LET stored == [state |-> mirror_image.state,
                      global_image_id |-> mirror_image.global_image_id]
           out == handle_fetch_mirror_image(r, d, stored)
       IN  /\ m_r_saved' = out.saved
           /\ m_mirror_image_internal' = out.internal
           /\ Control("fetch_mirror_image", r, out.next)
  /\ UNCHANGED <<inputVars, mode_read, ctorVars, m_data_pool_id, m_mirror_mode, poolVars>>

ack_mirror_image_enable ==
  /\ Pending("mirror_image_enable")
  /\ \E r \in WriteReplies :
       /\ mirror_image' =
            IF r = 0
              THEN MirrorImage(m_mirror_image_internal.state,
                               m_mirror_image_internal.global_image_id)
              ELSE mirror_image
       /\ m_r_saved' = handle_mirror_image_enable(r).saved
       /\ Control("mirror_image_enable", r, handle_mirror_image_enable(r).next)
  /\ UNCHANGED <<inputVars, mode_read, ctorVars, m_data_pool_id, m_mirror_mode,
                 m_mirror_image_internal, id_obj, dir_entry, header,
                 object_map, journal, snap_mode>>

\* the task queued on m_op_work_queue: notify_image_updated, then
\* handle_watcher_notify
run_watcher_notification ==
  /\ Pending("send_watcher_notification")
  /\ \E r \in WriteReplies :
       Control("send_watcher_notification", r, handle_watcher_notify(r))
  /\ UNCHANGED <<inputVars, mode_read, ctorVars, m_data_pool_id, m_r_saved, m_mirror_mode,
                 m_mirror_image_internal, poolVars>>

ack_journal_remove ==
  /\ Pending("journal_remove")
  /\ \E r \in RemoveReplies :
       /\ journal' = IF r = 0 THEN NoJournal ELSE journal
       /\ Control("journal_remove", r, handle_journal_remove(r))
  /\ UNCHANGED <<inputVars, mode_read, ctorVars, m_data_pool_id, m_r_saved, m_mirror_mode,
                 m_mirror_image_internal, id_obj, dir_entry, header,
                 object_map, mirror_image, snap_mode>>

ack_remove_object_map ==
  /\ Pending("remove_object_map")
  /\ \E r \in RemoveReplies :
       /\ object_map' = IF r = 0 THEN FALSE ELSE object_map
       /\ Control("remove_object_map", r, handle_remove_object_map(r))
  /\ UNCHANGED <<inputVars, mode_read, ctorVars, m_data_pool_id, m_r_saved, m_mirror_mode,
                 m_mirror_image_internal, id_obj, dir_entry, header,
                 journal, mirror_image, snap_mode>>

ack_remove_header_object ==
  /\ Pending("remove_header_object")
  /\ \E r \in RemoveReplies :
       /\ header' = IF r = 0 THEN NoHeader ELSE header
       /\ Control("remove_header_object", r, handle_remove_header_object(r))
  /\ UNCHANGED <<inputVars, mode_read, ctorVars, m_data_pool_id, m_r_saved, m_mirror_mode,
                 m_mirror_image_internal, id_obj, dir_entry, object_map,
                 journal, mirror_image, snap_mode>>

ack_remove_from_dir ==
  /\ Pending("remove_from_dir")
  /\ \E r \in RemoveReplies :
       /\ dir_entry' = IF r = 0 THEN FALSE ELSE dir_entry
       /\ Control("remove_from_dir", r, handle_remove_from_dir(r))
  /\ UNCHANGED <<inputVars, mode_read, ctorVars, m_data_pool_id, m_r_saved, m_mirror_mode,
                 m_mirror_image_internal, id_obj, header, object_map,
                 journal, mirror_image, snap_mode>>

\* the value `*result = m_r_saved` reads
SavedValues ==
  IF m_r_saved.set THEN {m_r_saved.val} ELSE IndeterminateValues

ack_remove_id_object ==
  /\ Pending("remove_id_object")
  /\ \E r \in RemoveReplies :
     \E saved \in SavedValues :
       /\ id_obj' = IF r = 0 THEN FALSE ELSE id_obj
       /\ Control("remove_id_object", r, handle_remove_id_object(r, saved))
  /\ UNCHANGED <<inputVars, mode_read, ctorVars, m_data_pool_id, m_r_saved, m_mirror_mode,
                 m_mirror_image_internal, dir_entry, header, object_map,
                 journal, mirror_image, snap_mode>>

Next ==
  \/ send
  \/ ack_validate_pool
  \/ ack_create_id_object
  \/ ack_add_image_to_directory
  \/ ack_create_image
  \/ ack_set_stripe_unit_count
  \/ ack_object_map_resize
  \/ ack_fetch_mirror_mode
  \/ ack_journal_create
  \/ ack_fetch_mirror_image
  \/ ack_mirror_image_enable
  \/ run_watcher_notification
  \/ ack_journal_remove
  \/ ack_remove_object_map
  \/ ack_remove_header_object
  \/ ack_remove_from_dir
  \/ ack_remove_id_object

Spec == Init /\ [][Next]_vars

\* =========================================================================
\* Vocabulary of the properties
\* =========================================================================

\* m_on_finish has been invoked
Completed == on_finish_calls >= 1

\* the operations of the cleanup chain, and the step that follows each
RollbackOps ==
  {"journal_remove", "remove_object_map", "remove_header_object",
   "remove_from_dir", "remove_id_object"}

RollbackEntered == \E i \in 1 .. Len(issued) : issued[i] \in RollbackOps

NextRollbackStep(op) ==
  CASE op = "journal_remove" ->
         IF OBJECT_MAP \in m_features THEN "remove_object_map"
         ELSE "remove_header_object"
    [] op = "remove_object_map" -> "remove_header_object"
    [] op = "remove_header_object" -> "remove_from_dir"
    [] OTHER -> "remove_id_object"

\* the forward steps that save their error, and the results they take as a
\* failure (NotFound is not one for the two reads of the mirror registry)
SavingOps ==
  {"add_image_to_directory", "create_image", "set_stripe_unit_count",
   "object_map_resize", "fetch_mirror_mode", "journal_create",
   "fetch_mirror_image", "mirror_image_enable"}

IsFailure(op, r) ==
  r < 0 /\ ~(op \in {"fetch_mirror_mode", "fetch_mirror_image"} /\ r = ENOENT)

\* the cluster object a forward step creates, and the one a cleanup step
\* removes
ObjectOf(op) ==
  CASE op \in {"create_id_object", "remove_id_object"} -> "id_obj"
    [] op \in {"add_image_to_directory", "remove_from_dir"} -> "dir_entry"
    [] op \in {"create_image", "remove_header_object"} -> "header"
    [] op \in {"object_map_resize", "remove_object_map"} -> "object_map"
    [] OTHER -> "journal"

CreatingOps ==
  {"create_id_object", "add_image_to_directory", "create_image",
   "object_map_resize", "journal_create"}

IsCreation(e) == e[1] \in CreatingOps /\ e[2] = 0

IsRemoval(op) == op \in RollbackOps

Reverse(q) == [i \in 1 .. Len(q) |-> q[Len(q) + 1 - i]]

\* the objects created by the forward steps that succeeded, in order
Created ==
  LET q == SelectSeq(replies, IsCreation)
  IN  [i \in 1 .. Len(q) |-> ObjectOf(q[i][1])]

\* the objects the cleanup issued a removal for, in order
Removed ==
  LET q == SelectSeq(issued, IsRemoval)
  IN  [i \in 1 .. Len(q) |-> ObjectOf(q[i])]

IsPrefix(p, q) == Len(p) <= Len(q) /\ \A i \in 1 .. Len(p) : p[i] = q[i]

\* send() rejected the request: it completed without issuing anything
NoSideEffect ==
  /\ on_finish_calls = 1
  /\ issued = <<>>
  /\ replies = <<>>
  /\ inflight = {}
  /\ Pool = pool_before

\* the bits the resolver enables on its own
DerivedBits ==
  ResolveStripingBit(opts, conf, ResolveDataPoolBit(opts, conf, {}))

\* the forward steps F0..F10 in their order
ForwardOrder ==
  <<"validate_pool", "create_id_object", "add_image_to_directory",
    "create_image", "set_stripe_unit_count", "object_map_resize",
    "fetch_mirror_mode", "journal_create", "fetch_mirror_image",
    "mirror_image_enable", "send_watcher_notification">>

IsForward(op) == \E i \in 1 .. Len(ForwardOrder) : ForwardOrder[i] = op

\* the forward steps this request passes over on its way to the next one
Skipped(op) ==
  CASE op = "validate_pool" -> ~conf.rbd_validate_pool
    [] op = "set_stripe_unit_count" ->
         \/ (m_stripe_unit = 0 /\ m_stripe_count = 0)
         \/ (m_stripe_count = 1 /\ m_stripe_unit = Pow2(m_order))
    [] op = "object_map_resize" -> OBJECT_MAP \notin m_features
    [] OTHER -> FALSE

NotSkipped(op) == ~Skipped(op)

\* the forward steps of this request, in order
ForwardPlan == SelectSeq(ForwardOrder, NotSkipped)

\* the results a forward step goes on from
ForwardOk(op, r) ==
  \/ r = 0
  \/ r = ENOENT /\ op \in {"validate_pool", "fetch_mirror_mode",
                            "fetch_mirror_image"}

\* =========================================================================
\* Properties
\* =========================================================================

\* C1: on every path of a request that does not abort the process, the
\* continuation m_on_finish is invoked exactly once: never twice, and once
\* send() has run and no issued operation awaits its callback, once.
C1_ContinuationExactlyOnce ==
  /\ on_finish_calls <= 1
  /\ (sent /\ ~aborted /\ inflight = {}) => on_finish_calls = 1
  /\ deleted <=> on_finish_calls = 1

\* C1 witness: a request that left through the cleanup chain, one of whose
\* removals failed, has invoked the continuation
C1_Witness ==
  /\ on_finish_calls = 1
  /\ replies # <<>>
  /\ replies[Len(replies)][1] = "remove_id_object"
  /\ \E i \in 1 .. Len(replies) : replies[i][2] = EBUSY

\* C2 (as stated): whenever the continuation is invoked with 0, the id
\* object, the directory entry and the header exist, and the object map
\* exists iff OBJECT_MAP is in the resolved mask.
C2_SuccessMeansImageExists ==
  (Completed /\ on_finish_r = 0) =>
    /\ id_obj
    /\ dir_entry
    /\ header.exists
    /\ object_map <=> (OBJECT_MAP \in m_features)

\* C3: a create that completed with a forward failure (F0, F1, or any step
\* that entered the cleanup) and whose cleanup removals all succeeded leaves
\* the id object, directory entry, header, object map, journal and mirror
\* registration as they were before the call.
C3_FailureLeavesPoolAsBefore ==
  ( /\ Completed
    /\ replies # <<>>
    /\ \/ RollbackEntered
       \/ replies[Len(replies)][1] \in {"validate_pool", "create_id_object"}
    /\ \A i \in 1 .. Len(replies) :
         replies[i][1] \in RollbackOps => replies[i][2] = 0 )
  => Pool = pool_before

\* C3 witness: EnableMirror (F9) failed on an image with object map and
\* journal, over an existing registration, and the whole cleanup succeeded
C3_Witness ==
  /\ Completed
  /\ \E i \in 1 .. Len(replies) : replies[i] = <<"mirror_image_enable", EIO>>
  /\ \A i \in 1 .. Len(replies) :
       replies[i][1] \in RollbackOps => replies[i][2] = 0
  /\ OBJECT_MAP \in m_features
  /\ pool_before.mirror_image.exists
  /\ Len(Removed) = 5

\* C4: a failure e reported to a forward step F2..F9 is saved in m_r_saved,
\* stays there whatever the cleanup steps return, and is the result the
\* continuation receives.
C4_ForwardErrorIsSavedAndDelivered ==
  \A i \in 1 .. Len(replies) :
    (replies[i][1] \in SavingOps /\ IsFailure(replies[i][1], replies[i][2])) =>
      /\ m_r_saved = Saved(replies[i][2])
      /\ Completed => on_finish_r = replies[i][2]

\* C4 witness: F9 failed with EIO, cleanup removals failed with EBUSY, and
\* the continuation has been invoked
C4_Witness ==
  /\ Completed
  /\ \E i \in 1 .. Len(replies) : replies[i] = <<"mirror_image_enable", EIO>>
  /\ \E i \in 1 .. Len(replies) : replies[i] = <<"journal_remove", EBUSY>>
  /\ replies[Len(replies)] = <<"remove_id_object", EBUSY>>

\* C5 (as stated): when F6 decodes a mirror mode other than Disabled, Image
\* or Pool, the saved error is EINVAL and the continuation receives EINVAL.
C5_UnknownMirrorModeIsInvalid ==
  (Completed /\ mode_read = "UNKNOWN") =>
    (m_r_saved = Saved(EINVAL) /\ on_finish_r = EINVAL)

\* C6: when a validator rejects the request in send(), the continuation
\* receives the error of the first rejecting validator in the order
\* features, order, striping, data pool, layout, and nothing has been issued
\* to the cluster: no forward operation, no cleanup operation.
C6_FirstValidatorErrorNoSideEffect ==
  (sent /\ ~aborted) =>
    LET rf == validate_features(m_features, m_force_non_primary)
        ro == validate_order(m_order)
        rs == validate_striping(m_order, m_stripe_unit, m_stripe_count)
        dp == DATA_POOL \in m_features /\ ~env.data_pool_exists
        ly == ~env.layout_compatible
    IN  /\ rf < 0 => (on_finish_r = rf /\ NoSideEffect)
        /\ (rf = 0 /\ ro < 0) => (on_finish_r = EDOM /\ NoSideEffect)
        /\ (rf = 0 /\ ro = 0 /\ rs < 0) => (on_finish_r = EINVAL /\ NoSideEffect)
        /\ (rf = 0 /\ ro = 0 /\ rs = 0 /\ dp) =>
             (on_finish_r = ENOENT /\ NoSideEffect)
        /\ (rf = 0 /\ ro = 0 /\ rs = 0 /\ ~dp /\ ly) =>
             (on_finish_r = EINVAL /\ NoSideEffect)
        /\ (rf = 0 /\ ro = 0 /\ rs = 0 /\ ~dp /\ ~ly) => issued # <<>>

\* C6 witness: order, striping and layout would all reject; the order error
\* is the one delivered
C6_Witness ==
  /\ sent
  /\ validate_features(m_features, m_force_non_primary) = 0
  /\ validate_order(m_order) < 0
  /\ validate_striping(m_order, m_stripe_unit, m_stripe_count) < 0
  /\ ~env.layout_compatible
  /\ on_finish_calls = 1
  /\ on_finish_r = EDOM

\* C7: every cleanup step whose callback has run, with a failure or not, was
\* followed by the next step of the chain JournalRemove -> RemoveObjectMap
\* -> RemoveHeader -> RemoveFromDirectory -> RemoveIdObject (RemoveObjectMap
\* skipped without OBJECT_MAP), and RemoveIdObject by the completion.
C7_RollbackFailureDoesNotStopChain ==
  \A k \in 1 .. Len(replies) :
    replies[k][1] \in RollbackOps =>
      IF replies[k][1] = "remove_id_object" THEN Completed
      ELSE /\ Len(issued) > k
           /\ issued[k + 1] = NextRollbackStep(replies[k][1])

\* C7 witness: the first four cleanup steps all failed and RemoveIdObject was
\* still issued
C7_Witness ==
  /\ \E i \in 1 .. Len(replies) : replies[i] = <<"journal_remove", EBUSY>>
  /\ \E i \in 1 .. Len(replies) : replies[i] = <<"remove_object_map", EBUSY>>
  /\ \E i \in 1 .. Len(replies) : replies[i] = <<"remove_header_object", EBUSY>>
  /\ \E i \in 1 .. Len(replies) : replies[i] = <<"remove_from_dir", EBUSY>>
  /\ "remove_id_object" \in inflight

\* C8: the cleanup issues removals for the objects the successful forward
\* steps created, in the reverse of their creation order, and for no other
\* object: while it runs the removals issued are a prefix of that reverse
\* order, and when the request completes they are all of it.
C8_RollbackRemovesWhatWasCreated ==
  RollbackEntered =>
    /\ IsPrefix(Removed, Reverse(Created))
    /\ Completed => Removed = Reverse(Created)

\* C8 witness: ObjectMapResize (F5) failed; header, directory entry and id
\* object were removed in that order and the object map was not
C8_Witness ==
  /\ Completed
  /\ \E i \in 1 .. Len(replies) : replies[i] = <<"object_map_resize", EIO>>
  /\ Removed = <<"header", "dir_entry", "id_obj">>

\* C9 (as stated): every feature bit in both set_bits and clear_bits is not
\* set in the resolved feature mask.
C9_ConflictBitsAreCleared ==
  \A b \in opts.features_set \cap opts.features_clear : b \notin m_features

\* C9 (amended): a feature bit in both set_bits and clear_bits, other than
\* the derived DATA_POOL and STRIPINGV2, is in the resolved mask iff it is in
\* the caller's feature value (or the default one): the conflict is ignored.
\* With set_bits = clear_bits = OBJECT_MAP and a caller value without
\* OBJECT_MAP the mask has no OBJECT_MAP and no object map is created.
C9_ConflictBitsKeepCallerValue ==
  /\ \A b \in (opts.features_set \cap opts.features_clear)
                \ {DATA_POOL, STRIPINGV2} :
       b \in m_features <=> b \in CallerFeatures(opts, conf)
  /\ ( /\ OBJECT_MAP \in opts.features_set \cap opts.features_clear
       /\ OBJECT_MAP \notin CallerFeatures(opts, conf) )
     => ( /\ OBJECT_MAP \notin m_features
          /\ ~object_map
          /\ \A i \in 1 .. Len(issued) : issued[i] # "object_map_resize" )

\* C9 witness: OBJECT_MAP is in the caller's features, in set_bits and in
\* clear_bits, and the object map has been created
C9_Witness ==
  /\ OBJECT_MAP \in opts.features_set \cap opts.features_clear
  /\ opts.features_given
  /\ OBJECT_MAP \in opts.features
  /\ header.exists
  /\ object_map

\* C10 (as stated): the mask written to the header equals
\* ((caller_features UNION set_bits) MINUS clear_bits) UNION derived_bits.
C10_HeaderFeaturesFormula ==
  header.exists =>
    header.features =
      ((CallerFeatures(opts, conf) \cup opts.features_set)
         \ opts.features_clear) \cup DerivedBits

\* C10 (amended): the mask written to the header equals the caller's
\* features with the non-conflicting set_bits added and the non-conflicting
\* clear_bits removed, and with DATA_POOL and STRIPINGV2 replaced by the
\* resolver's decisions: a DATA_POOL or STRIPINGV2 bit the caller carries is
\* dropped unless the resolver enables it.
C10_HeaderFeaturesResolved ==
  header.exists =>
    header.features =
      (((CallerFeatures(opts, conf)
           \cup (opts.features_set \ opts.features_clear))
          \ (opts.features_clear \ opts.features_set))
         \ {DATA_POOL, STRIPINGV2}) \cup DerivedBits

\* C10 witness: a header written for a caller mask that carries STRIPINGV2
\* and DATA_POOL, with a bit in both set_bits and clear_bits
C10_Witness ==
  /\ header.exists
  /\ {STRIPINGV2, DATA_POOL} \subseteq CallerFeatures(opts, conf)
  /\ opts.features_set \cap opts.features_clear # {}
  /\ STRIPINGV2 \notin header.features

\* C11 (as stated): after a create that delivered 0, with no registration of
\* the image id before it, the registration exists in state Enabled when the
\* mirror mode read in F6 is Pool or the request is forced-non-primary, and
\* no registration has been written otherwise.
C11_MirrorEnabledIffToBeEnabled ==
  (Completed /\ on_finish_r = 0 /\ ~pool_before.mirror_image.exists) =>
    IF mode_read = "POOL" \/ m_force_non_primary
      THEN mirror_image.exists /\ mirror_image.state = "ENABLED"
      ELSE mirror_image = NoMirrorImage

\* Every operation the request issues calls back: the store acknowledges
\* each rados operation, the journal sub-requests complete their context and
\* the work queue runs the task queued on it.
Callbacks ==
  /\ WF_vars(ack_validate_pool)
  /\ WF_vars(ack_create_id_object)
  /\ WF_vars(ack_add_image_to_directory)
  /\ WF_vars(ack_create_image)
  /\ WF_vars(ack_set_stripe_unit_count)
  /\ WF_vars(ack_object_map_resize)
  /\ WF_vars(ack_fetch_mirror_mode)
  /\ WF_vars(ack_journal_create)
  /\ WF_vars(ack_fetch_mirror_image)
  /\ WF_vars(ack_mirror_image_enable)
  /\ WF_vars(run_watcher_notification)
  /\ WF_vars(ack_journal_remove)
  /\ WF_vars(ack_remove_object_map)
  /\ WF_vars(ack_remove_header_object)
  /\ WF_vars(ack_remove_from_dir)
  /\ WF_vars(ack_remove_id_object)

LiveSpec == Spec /\ Callbacks

\* C12: if every issued operation calls back, a request that was sent (and
\* did not abort the process) reaches the state where the continuation has
\* been invoked, the request is destroyed and nothing is outstanding,
\* whatever the operations return; no operation is issued twice, so the
\* pipeline has no cycle.
C12_SentRequestTerminates ==
  /\ [](\A i, j \in 1 .. Len(issued) : issued[i] = issued[j] => i = j)
  /\ (sent /\ ~aborted) ~> (on_finish_calls = 1 /\ deleted /\ inflight = {})

\* C12 witness: a request that went through an unreadable mirror
\* registration and a cleanup whose removals all failed is destroyed
C12_Witness ==
  /\ deleted
  /\ inflight = {}
  /\ \E i \in 1 .. Len(replies) : replies[i] = <<"fetch_mirror_image", EIO>>
  /\ \A i \in 1 .. Len(replies) :
       replies[i][1] \in RollbackOps => replies[i][2] = EBUSY
  /\ Len(Removed) = 5

\* C13: at most one operation is outstanding at any time; an operation is
\* issued only by send() or from inside the callback of the operation issued
\* before it (the callbacks answer the operations in the order they were
\* issued, one by one); once the continuation has been invoked nothing is
\* outstanding and nothing is issued any more.
C13_StrictlySerial ==
  /\ [](/\ Cardinality(inflight) <= 1
        /\ Len(issued) = Len(replies) + Cardinality(inflight)
        /\ \A k \in 1 .. Len(replies) : replies[k][1] = issued[k]
        /\ inflight # {} => issued[Len(issued)] \in inflight
        /\ Completed => inflight = {})
  /\ [][issued' # issued => (~sent \/ replies' # replies)]_vars
  /\ [][Completed => issued' = issued]_vars

\* C13 witness: JournalRemove, issued from inside the callback of the failed
\* EnableMirror, is the one operation outstanding
C13_Witness ==
  /\ inflight = {"journal_remove"}
  /\ Len(replies) = 10
  /\ replies[10] = <<"mirror_image_enable", EIO>>
  /\ issued[11] = "journal_remove"

\* C14: the forward steps issued are, in order and without repetition, the
\* first steps of F0..F10 less the skipped ones; a forward step other than
\* the first is issued right after a forward step that completed
\* successfully, hence never after the cleanup has been entered.
C14_ForwardStepsInOrder ==
  /\ IsPrefix(SelectSeq(issued, IsForward), ForwardPlan)
  /\ \A k \in 2 .. Len(issued) :
       IsForward(issued[k]) =>
         /\ IsForward(issued[k - 1])
         /\ replies[k - 1][1] = issued[k - 1]
         /\ ForwardOk(issued[k - 1], replies[k - 1][2])

\* C14 witness: a request that skips nothing has issued all eleven steps
C14_Witness ==
  /\ issued = ForwardOrder
  /\ inflight = {"send_watcher_notification"}

\* C15 (as stated): when ObjectMapResize (F5) failed, the cleanup issued
\* RemoveObjectMap, RemoveHeader, RemoveFromDirectory, RemoveIdObject in
\* that order and the continuation received the error of F5.
C15_ObjectMapFailureTraversesR0 ==
  \A i \in 1 .. Len(replies) :
    (Completed /\ replies[i][1] = "object_map_resize" /\ replies[i][2] < 0) =>
      /\ SelectSeq(issued, IsRemoval) =
           <<"remove_object_map", "remove_header_object", "remove_from_dir",
             "remove_id_object">>
      /\ on_finish_r = replies[i][2]

\* C15 (amended): when ObjectMapResize (F5) failed, the cleanup issued
\* RemoveHeader, RemoveFromDirectory, RemoveIdObject in that order and no
\* RemoveObjectMap, and the continuation received the error of F5.
C15_ObjectMapFailureTraversesR1 ==
  \A i \in 1 .. Len(replies) :
    (Completed /\ replies[i][1] = "object_map_resize" /\ replies[i][2] < 0) =>
      /\ OBJECT_MAP \in m_features
      /\ SelectSeq(issued, IsRemoval) =
           <<"remove_header_object", "remove_from_dir", "remove_id_object">>
      /\ on_finish_r = replies[i][2]

\* C15 witness: F5 failed after the stripe parameters were written, the
\* removal of the header failed too, and the caller received the F5 error
C15_Witness ==
  /\ Completed
  /\ on_finish_r = EIO
  /\ \E i \in 1 .. Len(replies) : replies[i] = <<"set_stripe_unit_count", 0>>
  /\ \E i \in 1 .. Len(replies) : replies[i] = <<"object_map_resize", EIO>>
  /\ \E i \in 1 .. Len(replies) : replies[i] = <<"remove_header_object", EBUSY>>

\* C16 (as stated): after a create that ended in failure, whatever the
\* cleanup steps returned, the directory does not hold the entry this request
\* added while the header or the id object of the image has been removed.
C16_NoDanglingDirectoryEntry ==
  (Completed /\ on_finish_r < 0 /\ dir_entry) =>
    \A i \in 1 .. Len(replies) :
      /\ replies[i] # <<"remove_header_object", 0>>
      /\ replies[i] # <<"remove_id_object", 0>>

\* the last forward step of a request that has no JOURNALING
LastStepWithoutJournal ==
  IF ~Skipped("object_map_resize") THEN "object_map_resize"
  ELSE IF ~Skipped("set_stripe_unit_count") THEN "set_stripe_unit_count"
  ELSE "create_image"

\* C17: without JOURNALING in the resolved mask the request never issues
\* FetchMirrorMode, JournalCreate, FetchMirrorImage, EnableMirror or the
\* watcher notification, leaves the journal and the mirror registration as
\* they were, and completes with 0 as soon as the last of F3, F4, F5 that
\* it does not skip has succeeded.
C17_NoJournalingCompletesAfterF5 ==
  JOURNALING \notin m_features =>
    /\ \A i \in 1 .. Len(issued) :
         issued[i] \notin {"fetch_mirror_mode", "journal_create",
                           "fetch_mirror_image", "mirror_image_enable",
                           "send_watcher_notification"}
    /\ mode_read = "unread"
    /\ journal = pool_before.journal
    /\ mirror_image = pool_before.mirror_image
    /\ (replies # <<>> /\ replies[Len(replies)] = <<LastStepWithoutJournal, 0>>)
         => (Completed /\ on_finish_r = 0 /\ inflight = {})

\* C17 witness: an image with object map and no journal, in a pool whose
\* registry holds a registration of the id, completed right after F5
C17_Witness ==
  /\ JOURNALING \notin m_features
  /\ pool_before.mirror_image.exists
  /\ Completed
  /\ on_finish_r = 0
  /\ replies[Len(replies)] = <<"object_map_resize", 0>>

\* C18: once JournalCreate (F7) has succeeded, a request whose mirror mode is
\* not Pool and that is not forced-non-primary is complete with 0 and has
\* neither read nor written the mirror registration; a request that read a
\* registration in state Enabled is complete with 0 without having issued
\* EnableMirror or the watcher notification, the registration untouched; a
\* NotFound answer to the read saves no error and is followed by
\* EnableMirror.
C18_FetchMirrorImageOutcomes ==
  \A k \in 1 .. Len(replies) :
    /\ (replies[k] = <<"journal_create", 0>>
          /\ m_mirror_mode # "POOL" /\ ~m_force_non_primary) =>
         /\ Completed /\ on_finish_r = 0 /\ Len(replies) = k
         /\ \A i \in 1 .. Len(issued) :
              issued[i] \notin {"fetch_mirror_image", "mirror_image_enable"}
         /\ mirror_image = pool_before.mirror_image
    /\ (replies[k] = <<"fetch_mirror_image", 0>> /\ ~m_r_saved.set
          /\ pool_before.mirror_image.state = "ENABLED") =>
         /\ Completed /\ on_finish_r = 0 /\ Len(replies) = k
         /\ \A i \in 1 .. Len(issued) :
              issued[i] \notin {"mirror_image_enable",
                                "send_watcher_notification"}
         /\ mirror_image = pool_before.mirror_image
    /\ replies[k] = <<"fetch_mirror_image", ENOENT>> =>
         /\ issued[k + 1] = "mirror_image_enable"
         /\ \A i \in 1 .. k : ForwardOk(replies[i][1], replies[i][2])

\* C18 witness: a forced-non-primary request found the registration of its
\* id Enabled and completed with 0
C18_Witness ==
  /\ Completed
  /\ on_finish_r = 0
  /\ m_force_non_primary
  /\ replies[Len(replies)] = <<"fetch_mirror_image", 0>>
  /\ pool_before.mirror_image.state = "ENABLED"

\* C19: once EnableMirror (F9) has succeeded the watcher notification is
\* issued and the continuation is not invoked before it has run; when it
\* has run, with whatever result, the continuation has received 0, no
\* cleanup step was issued and the registration is the Enabled one F9 wrote.
C19_NotificationIsBestEffort ==
  \A k \in 1 .. Len(replies) :
    replies[k] = <<"mirror_image_enable", 0>> =>
      /\ issued[k + 1] = "send_watcher_notification"
      /\ ~RollbackEntered
      /\ mirror_image = MirrorImage("ENABLED", EnabledMirrorImage.global_image_id)
      /\ IF Len(replies) = k
           THEN ~Completed /\ inflight = {"send_watcher_notification"}
           ELSE /\ Len(replies) = k + 1
                /\ replies[k + 1][1] = "send_watcher_notification"
                /\ Completed
                /\ on_finish_r = 0

\* C19 witness: the notification failed and the request completed with 0
\* over a registration that was Disabled before
C19_Witness ==
  /\ Completed
  /\ on_finish_r = 0
  /\ replies[Len(replies)] = <<"send_watcher_notification", EIO>>
  /\ pool_before.mirror_image.state = "DISABLED"
  /\ mirror_image.state = "ENABLED"

\* the feature dependencies: FAST_DIFF needs OBJECT_MAP, OBJECT_MAP and
\* JOURNALING need EXCLUSIVE_LOCK
FeatureDependenciesHold(f) ==
  /\ FAST_DIFF \in f => OBJECT_MAP \in f
  /\ OBJECT_MAP \in f => EXCLUSIVE_LOCK \in f
  /\ JOURNALING \in f => EXCLUSIVE_LOCK \in f

\* C20: a request that has issued an operation has no unknown feature bit,
\* satisfies the feature dependencies, and has JOURNALING if it is
\* forced-non-primary; a sent request with an unknown bit completed with
\* ENOSYS (also when it violates a dependency or is forced-non-primary
\* without JOURNALING: no abort), one with known bits that violates a
\* dependency completed with EINVAL; neither issued anything.
C20_FeatureDependencies ==
  /\ issued # <<>> =>
       /\ m_features \subseteq RBD_FEATURES_ALL
       /\ FeatureDependenciesHold(m_features)
       /\ m_force_non_primary => JOURNALING \in m_features
  /\ (sent /\ ~(m_features \subseteq RBD_FEATURES_ALL)) =>
       /\ ~aborted
       /\ on_finish_calls = 1
       /\ on_finish_r = ENOSYS
       /\ issued = <<>>
  /\ (sent /\ m_features \subseteq RBD_FEATURES_ALL
            /\ ~FeatureDependenciesHold(m_features)) =>
       /\ ~aborted
       /\ on_finish_calls = 1
       /\ on_finish_r = EINVAL
       /\ issued = <<>>

\* C20 witness: a forced-non-primary request with an unknown bit, FAST_DIFF
\* without OBJECT_MAP and no JOURNALING was rejected with ENOSYS
C20_Witness ==
  /\ sent
  /\ UNKNOWN_BIT \in m_features
  /\ FAST_DIFF \in m_features
  /\ OBJECT_MAP \notin m_features
  /\ JOURNALING \notin m_features
  /\ m_force_non_primary
  /\ on_finish_calls = 1
  /\ on_finish_r = ENOSYS

\* the layout is the default one: one object per stripe
DefaultShape ==
  m_layout.stripe_unit = m_layout.object_size /\ m_layout.stripe_count = 1

\* C21 (as stated): for every combination of stripe_unit, stripe_count and
\* order, the resolved mask contains STRIPINGV2 iff the shape recorded in the
\* layout differs from the default (stripe_unit = 2^order, stripe_count = 1).
C21_StripingBitIffShapeDiffers ==
  STRIPINGV2 \in m_features <=> ~DefaultShape

\* C21 (amended): when stripe_unit and stripe_count after defaulting are
\* both zero or both non-zero, the resolved mask contains STRIPINGV2 iff the
\* shape recorded in the layout differs from the default, whatever the
\* caller's STRIPINGV2 bit; when exactly one of them is zero the layout is
\* the default one, the mask contains STRIPINGV2 unless the non-zero one has
\* its default value (stripe_unit = 2^order, stripe_count = 1), and the
\* request, once sent with valid features and order, is rejected as Invalid.
C21_StripingBitFollowsOptions ==
  IF (m_stripe_unit = 0) = (m_stripe_count = 0)
    THEN STRIPINGV2 \in m_features <=> ~DefaultShape
    ELSE /\ DefaultShape
         /\ STRIPINGV2 \in m_features <=>
              (m_stripe_unit \notin {0, Pow2(m_order)}
                 \/ m_stripe_count \notin {0, 1})
         /\ (sent /\ validate_features(m_features, m_force_non_primary) = 0
                  /\ validate_order(m_order) = 0) =>
              (on_finish_calls = 1 /\ on_finish_r = EINVAL /\ issued = <<>>)

\* C21 witness: the caller supplied STRIPINGV2 with the default shape given
\* explicitly (stripe_unit = 2^order, stripe_count = 1); the header was
\* written without the bit
C21_Witness ==
  /\ STRIPINGV2 \in opts.features
  /\ opts.stripe_count = 1
  /\ opts.stripe_unit = Pow2(m_order)
  /\ header.exists
  /\ STRIPINGV2 \notin header.features

\* C22 (as stated): a sent request with valid features and a caller-supplied
\* order option v is not rejected with EDOM when v = 0 (the configured
\* default is used) or 12 <= v <= 25, and completes with EDOM without
\* issuing anything for every other v, values of 256 and more included; a
\* request that has issued an operation has its order in 12..25.
C22_OrderValidatedOnOptionValue ==
  (sent /\ opts.order # Absent
        /\ validate_features(m_features, m_force_non_primary) = 0) =>
    /\ IF opts.order = 0 \/ (12 <= opts.order /\ opts.order <= 25)
         THEN ~(on_finish_calls = 1 /\ on_finish_r = EDOM)
         ELSE on_finish_calls = 1 /\ on_finish_r = EDOM /\ issued = <<>>
    /\ issued # <<>> => (12 <= m_order /\ m_order <= 25)

\* C23 (as stated): a registration of the image id that exists before the
\* create in state Disabling or Enabling is never changed by it: neither its
\* state nor its global_image_id.
C23_TransitionalRegistrationPreserved ==
  (pool_before.mirror_image.exists
     /\ pool_before.mirror_image.state \in {"DISABLING", "ENABLING"}) =>
    mirror_image = pool_before.mirror_image

\* C24: once F3 has written the header, SetStripeUnitCount (F4) is issued
\* iff STRIPINGV2 is in the mask F3 wrote; a header on which F4 succeeded
\* carries STRIPINGV2 and the request's non-zero stripe parameters, a header
\* without STRIPINGV2 carries no stripe parameters, and a header with
\* STRIPINGV2 lacks them only while F4 is outstanding or after it failed.
C24_StripingBitAgreesWithF4 ==
  LET F4Issued ==
        \E i \in 1 .. Len(issued) : issued[i] = "set_stripe_unit_count"
      F4Done ==
        \E i \in 1 .. Len(replies) : replies[i] = <<"set_stripe_unit_count", 0>>
      F4Failed ==
        \E i \in 1 .. Len(replies) :
          replies[i][1] = "set_stripe_unit_count" /\ replies[i][2] < 0
  IN  /\ (\E k \in 1 .. Len(replies) : replies[k] = <<"create_image", 0>>) =>
           (F4Issued <=> STRIPINGV2 \in m_features)
      /\ header.exists =>
           /\ header.features = m_features
           /\ F4Done =>
                /\ STRIPINGV2 \in header.features
                /\ header.stripe_unit = m_stripe_unit /\ m_stripe_unit # 0
                /\ header.stripe_count = m_stripe_count /\ m_stripe_count # 0
           /\ STRIPINGV2 \notin header.features =>
                (header.stripe_unit = 0 /\ header.stripe_count = 0)
           /\ (STRIPINGV2 \in header.features /\ ~F4Done) =>
                ("set_stripe_unit_count" \in inflight \/ F4Failed)

\* C24 witness: a one-object stripe with a stripe unit smaller than the
\* object: the header carries STRIPINGV2 and the stripe parameters
C24_Witness ==
  /\ header.exists
  /\ STRIPINGV2 \in header.features
  /\ m_stripe_count = 1
  /\ m_stripe_unit # Pow2(m_order)
  /\ header.stripe_unit = m_stripe_unit
  /\ header.stripe_count = 1

====
